---- MODULE Spec2Model ----
(***************************************************************************)
(* Model of the GraphQL Mutation resolvers of the Sick Fits backend        *)
(* (src/unnamed/part_000): the database tables User, Item and CartItem,    *)
(* the response cookie, the clock, and one action per resolver.            *)
(*                                                                         *)
(* Five specifications share the variables:                                *)
(*   SpecAuth      signup, signin, signout, requestReset, resetPassword    *)
(*   SpecReset     requestReset, resetPassword and the clock               *)
(*   SpecItems     createItem, updateItem, deleteItem, updatePermissions   *)
(*   SpecCart      addToCart, removeFromCart, over items that come and go  *)
(*   SpecCartRace  addToCart split at its await: the cartItems query and   *)
(*                 the update-or-create are separate steps of a request    *)
(***************************************************************************)
EXTENDS Integers, Sequences, FiniteSets, TLC

VARIABLES
    users,       \* User table: id -> row
    nextUserId,  \* ids are never reused
    items,       \* Item table: id -> row
    nextItemId,
    cartItems,   \* CartItem table: id -> row
    nextCartId,
    cookie,      \* the 'token' cookie of the response: {} or {jwt}
    now,         \* Date.now()
    nextToken,   \* the next value randomBytes(20) yields
    lastAuth,    \* history: user of the last successful signin/signup/resetPassword
    issuedAt,    \* history: reset token -> Date.now() of the requestReset that made it
    usedTokens,  \* history: reset tokens a resetPassword has succeeded with
    requests,    \* in-flight addToCart requests (SpecCartRace)
    last         \* history: the resolver call made last and how it ended

vars == <<users, nextUserId, items, nextItemId, cartItems, nextCartId,
          cookie, now, nextToken, lastAuth, issuedAt, usedTokens, requests, last>>

----------------------------------------------------------------------------
(* Bounds *)

MaxUsers == 3
MaxItems == 1
MaxCartRows == 2
MaxQuantity == 2
MaxTokens == 2
MaxTicks == 5
MaxRequests == 3

----------------------------------------------------------------------------
(* Values *)

\* undefined / null: no userId on the request, a null column
Null == 0

\* `Date.now() + 3600000` and `Date.now() - 3600000`
HourMs == 3600000

\* the granularity of the modelled clock: half of the hour
TickMs == HourMs \div 2

\* e-mail addresses are strings of character codes: "A" "a" "B" "c" "bC"
Emails == {<<65>>, <<97>>, <<66>>, <<99>>, <<98, 67>>}

Passwords == {"p1", "p2"}

\* the permission lists a request may carry
PermissionSets == {{"USER"}, {"ADMIN"}, {"ITEMDELETE"}, {"PERMISSIONUPDATE"}}

Titles == {"t1", "t2"}
Descriptions == {"d1", "d2"}

UserIds == 1..MaxUsers
ItemIds == 1..MaxItems
CartIds == 1..MaxCartRows
Tokens == 1..MaxTokens

----------------------------------------------------------------------------
(* Library functions *)

\* String.prototype.toLowerCase on a string of character codes
toLowerCase(s) ==
    [k \in 1..Len(s) |-> IF s[k] >= 65 /\ s[k] <= 90 THEN s[k] + 32 ELSE s[k]]

\* bcrypt.hash(password, 10): a value that is not the plaintext
bcryptHash(p) == "$2a$10$" \o p

\* bcrypt.compare(password, hash)
bcryptCompare(p, h) == h = bcryptHash(p)

\* jwt.sign({ userId }, APP_SECRET)
jwtSign(uid) == [userId |-> uid]

\* { ...base, ...over }: object spread, later keys win
Spread(base, over) ==
    [k \in DOMAIN base \cup DOMAIN over |->
        IF k \in DOMAIN over THEN over[k] ELSE base[k]]

\* the object without the key, as after `delete updates.id`
Without(obj, key) == [k \in DOMAIN obj \ {key} |-> obj[k]]

----------------------------------------------------------------------------
(* Database queries *)

\* ctx.db.query.user({ where: { email } }): the id of the row, or Null
UserByEmail(email) ==
    IF \E u \in DOMAIN users : users[u].email = email
    THEN CHOOSE u \in DOMAIN users : users[u].email = email
    ELSE Null

\* ctx.db.query.users({ where: { resetToken, resetTokenExpiry_gte } })
UsersByResetToken(token, expiryGte) ==
    {u \in DOMAIN users :
        /\ users[u].resetToken = token
        /\ users[u].resetTokenExpiry # Null
        /\ users[u].resetTokenExpiry >= expiryGte}

\* ctx.db.query.cartItems({ where: { user: { id }, item: { id } } })
CartItemsOf(uid, itemId) ==
    {c \in DOMAIN cartItems : cartItems[c].user = uid /\ cartItems[c].item = itemId}

\* `const [first] = rows`: the first row of a result, or Null
First(rows) == IF rows = {} THEN Null ELSE CHOOSE c \in rows : \A d \in rows : c <= d

\* ctx.request.user: the row of the logged-in user, when there is one
RequestUserKnown(uid) == uid # Null /\ uid \in DOMAIN users

\* hasPermission(user, permissionsNeeded) does not throw: the user holds one of them
hasPermission(user, permissionsNeeded) ==
    user.permissions \cap permissionsNeeded # {}

\* CartItem.quantity of a row created without one
DefaultQuantity == 1

----------------------------------------------------------------------------
(* History *)

Call(op, uid, args, error) == [op |-> op, userId |-> uid, args |-> args, error |-> error]

Ok == "none"

----------------------------------------------------------------------------
(* Initial state: the seeded database, an administrator and a customer.
   signup grants USER only and updatePermissions needs ADMIN or
   PERMISSIONUPDATE, so the first administrator is a row of the seed. *)

SeedUsers ==
    (1 :> [email |-> <<97>>, password |-> bcryptHash("p1"),
           permissions |-> {"ADMIN", "USER"},
           resetToken |-> Null, resetTokenExpiry |-> Null])
    @@
    (2 :> [email |-> <<99>>, password |-> bcryptHash("p2"),
           permissions |-> {"USER"},
           resetToken |-> Null, resetTokenExpiry |-> Null])

Init ==
    /\ users = SeedUsers
    /\ nextUserId = 3
    /\ items = <<>>
    /\ nextItemId = 1
    /\ cartItems = <<>>
    /\ nextCartId = 1
    /\ cookie = {}
    /\ now = 0
    /\ nextToken = 1
    /\ lastAuth = Null
    /\ issuedAt = <<>>
    /\ usedTokens = {}
    /\ requests = <<>>
    /\ last = Call("init", Null, <<>>, Ok)

----------------------------------------------------------------------------
(* Authentication resolvers *)

shopVars == <<items, nextItemId, cartItems, nextCartId, requests>>
authVars == <<nextUserId, cookie, now, nextToken, lastAuth, issuedAt, usedTokens>>
resetVars == <<now, nextToken, issuedAt, usedTokens>>

\* the unique constraint on User.email: createUser throws on a taken address
EmailTaken(email) == UserByEmail(email) # Null

\* signupData with the arguments spread last, so that they win: a fault C4 detects
signupData_argsLast(args) ==
    Spread([password |-> bcryptHash(args.password), permissions |-> {"USER"}], args)

\* the data object handed to createUser: { ...args, password, permissions: { set: ['USER'] } }
signupData(args) ==
    Spread(args, [password |-> bcryptHash(args.password), permissions |-> {"USER"}])

signup(args0) ==
    LET args == [args0 EXCEPT !.email = toLowerCase(args0.email)]
        data == signupData(args)
        id == nextUserId
    IN  /\ IF EmailTaken(data.email)
           THEN /\ last' = Call("signup", Null, args0, "unique constraint")
                /\ UNCHANGED <<users, nextUserId, cookie, lastAuth>>
           ELSE /\ nextUserId <= MaxUsers
                /\ users' = users @@ (id :> [email |-> data.email,
                                             password |-> data.password,
                                             permissions |-> data.permissions,
                                             resetToken |-> Null,
                                             resetTokenExpiry |-> Null])
                /\ nextUserId' = nextUserId + 1
                /\ cookie' = {jwtSign(id)}
                /\ lastAuth' = id
                /\ last' = Call("signup", Null, args0, Ok)
        /\ UNCHANGED <<shopVars, resetVars>>

\* signin with the password comparison left out: a fault C5 detects
signin_noPasswordCheck(email, password) ==
    LET user == UserByEmail(email)
        args == [email |-> email, password |-> password]
    IN  /\ IF user = Null
           THEN /\ last' = Call("signin", Null, args, "No such user found for email")
                /\ UNCHANGED <<cookie, lastAuth>>
           ELSE /\ cookie' = {jwtSign(user)}
                /\ lastAuth' = user
                /\ last' = Call("signin", Null, args, Ok)
        /\ UNCHANGED <<users, nextUserId, shopVars, resetVars>>

signin(email, password) ==
    LET user == UserByEmail(email)
        args == [email |-> email, password |-> password]
    IN  /\ IF user = Null
           THEN /\ last' = Call("signin", Null, args, "No such user found for email")
                /\ UNCHANGED <<cookie, lastAuth>>
           ELSE IF ~bcryptCompare(password, users[user].password)
           THEN /\ last' = Call("signin", Null, args, "Invalid password!")
                /\ UNCHANGED <<cookie, lastAuth>>
           ELSE /\ cookie' = {jwtSign(user)}
                /\ lastAuth' = user
                /\ last' = Call("signin", Null, args, Ok)
        /\ UNCHANGED <<users, nextUserId, shopVars, resetVars>>

signout ==
    /\ cookie' = {}
    /\ last' = Call("signout", Null, <<>>, Ok)
    /\ UNCHANGED <<users, nextUserId, lastAuth, shopVars, resetVars>>

requestReset(email) ==
    LET user == UserByEmail(email)
        args == [email |-> email]
    IN  /\ IF user = Null
           THEN /\ last' = Call("requestReset", Null, args, "No such user found for email")
                /\ UNCHANGED <<users, nextToken, issuedAt>>
           ELSE /\ nextToken <= MaxTokens
                /\ LET resetToken == nextToken
                       resetTokenExpiry == now + HourMs
                   IN  /\ users' = [users EXCEPT ![user] =
                                      [@ EXCEPT !.resetToken = resetToken,
                                                !.resetTokenExpiry = resetTokenExpiry]]
                       /\ issuedAt' = issuedAt @@ (resetToken :> now)
                /\ nextToken' = nextToken + 1
                /\ last' = Call("requestReset", Null, args, Ok)
        /\ UNCHANGED <<nextUserId, cookie, lastAuth, now, usedTokens, shopVars>>

\* resetPassword that does not clear the reset fields: a fault C7 detects
resetPassword_keepToken(args) ==
    LET user == First(UsersByResetToken(args.resetToken, now - HourMs))
    IN  /\ IF args.password # args.confirmPassword
           THEN /\ last' = Call("resetPassword", Null, args, "Your passwords don't match!")
                /\ UNCHANGED <<users, cookie, lastAuth, usedTokens>>
           ELSE IF user = Null
           THEN /\ last' = Call("resetPassword", Null, args, "This token is either invalid or expired")
                /\ UNCHANGED <<users, cookie, lastAuth, usedTokens>>
           ELSE /\ users' = [users EXCEPT ![user] =
                               [@ EXCEPT !.password = bcryptHash(args.password)]]
                /\ cookie' = {jwtSign(user)}
                /\ lastAuth' = user
                /\ usedTokens' = usedTokens \cup {args.resetToken}
                /\ last' = Call("resetPassword", Null, args, Ok)
        /\ UNCHANGED <<nextUserId, now, nextToken, issuedAt, shopVars>>

resetPassword(args) ==
    LET user == First(UsersByResetToken(args.resetToken, now - HourMs))
    IN  /\ IF args.password # args.confirmPassword
           THEN /\ last' = Call("resetPassword", Null, args, "Your passwords don't match!")
                /\ UNCHANGED <<users, cookie, lastAuth, usedTokens>>
           ELSE IF user = Null
           THEN /\ last' = Call("resetPassword", Null, args, "This token is either invalid or expired")
                /\ UNCHANGED <<users, cookie, lastAuth, usedTokens>>
           ELSE /\ users' = [users EXCEPT ![user] =
                               [@ EXCEPT !.password = bcryptHash(args.password),
                                         !.resetToken = Null,
                                         !.resetTokenExpiry = Null]]
                /\ cookie' = {jwtSign(user)}
                /\ lastAuth' = user
                /\ usedTokens' = usedTokens \cup {args.resetToken}
                /\ last' = Call("resetPassword", Null, args, Ok)
        /\ UNCHANGED <<nextUserId, now, nextToken, issuedAt, shopVars>>

\* time passes between requests
Tick ==
    /\ now < MaxTicks * TickMs
    /\ now' = now + TickMs
    /\ last' = Call("tick", Null, <<>>, Ok)
    /\ UNCHANGED <<users, nextUserId, cookie, lastAuth, nextToken, issuedAt, usedTokens, shopVars>>

\* the arguments a signup request may carry
SignupArgs ==
    [email : Emails, password : Passwords]
    \cup [email : Emails, password : Passwords, permissions : {{"ADMIN"}}]

ResetArgs == [resetToken : Tokens, password : Passwords, confirmPassword : Passwords]

NextAuth ==
    \/ \E args \in SignupArgs : signup(args)
    \/ \E email \in Emails, password \in Passwords : signin(email, password)
    \/ signout
    \/ \E email \in Emails : requestReset(email)
    \/ \E args \in ResetArgs : resetPassword(args)

SpecAuth == Init /\ [][NextAuth]_vars

\* password reset against the clock
NextReset ==
    \/ \E email \in Emails : requestReset(email)
    \/ \E args \in ResetArgs : resetPassword(args)
    \/ Tick

SpecReset == Init /\ [][NextReset]_vars

----------------------------------------------------------------------------
(* Item resolvers *)

createItem(uid, args) ==
    /\ IF uid = Null
       THEN /\ last' = Call("createItem", uid, args, "You must be logged in to do that!")
            /\ UNCHANGED <<items, nextItemId>>
       ELSE /\ nextItemId <= MaxItems
            /\ items' = items @@ (nextItemId :> Spread([user |-> uid], args))
            /\ nextItemId' = nextItemId + 1
            /\ last' = Call("createItem", uid, args, Ok)
    /\ UNCHANGED <<users, cartItems, nextCartId, requests, authVars>>

updateItem(uid, args) ==
    LET updates == Without(args, "id")
    IN  /\ IF args.id \notin DOMAIN items
           THEN /\ last' = Call("updateItem", uid, args, "No Node for the model Item")
                /\ UNCHANGED items
           ELSE /\ items' = [items EXCEPT ![args.id] = Spread(@, updates)]
                /\ last' = Call("updateItem", uid, args, Ok)
        /\ UNCHANGED <<users, nextItemId, cartItems, nextCartId, requests, authVars>>

\* deleteItem with the ownership and permission check left out: a fault C3 detects
deleteItem_noCheck(uid, args) ==
    IF args.id \notin DOMAIN items \/ ~RequestUserKnown(uid)
    THEN /\ last' = Call("deleteItem", uid, args, "TypeError")
         /\ UNCHANGED <<users, items, nextItemId, cartItems, nextCartId, requests, authVars>>
    ELSE /\ items' = [i \in DOMAIN items \ {args.id} |-> items[i]]
         /\ cartItems' = [c \in DOMAIN cartItems |->
                            IF cartItems[c].item = args.id
                            THEN [cartItems[c] EXCEPT !.item = Null]
                            ELSE cartItems[c]]
         /\ last' = Call("deleteItem", uid, args, Ok)
         /\ UNCHANGED <<users, nextItemId, nextCartId, requests, authVars>>

deleteItem(uid, args) ==
    IF args.id \notin DOMAIN items \/ ~RequestUserKnown(uid)
    THEN \* item is null, or ctx.request.user is undefined: reading a property throws
         /\ last' = Call("deleteItem", uid, args, "TypeError")
         /\ UNCHANGED <<users, items, nextItemId, cartItems, nextCartId, requests, authVars>>
    ELSE LET item == items[args.id]
             ownsItem == item.user = uid
             hasPermissions == \E permission \in users[uid].permissions :
                                  permission \in {"ADMIN", "ITEMDELETE"}
         IN  IF ~ownsItem /\ ~hasPermissions
             THEN /\ last' = Call("deleteItem", uid, args, "You don't have permission to do that!")
                  /\ UNCHANGED <<users, items, nextItemId, cartItems, nextCartId, requests, authVars>>
             ELSE /\ items' = [i \in DOMAIN items \ {args.id} |-> items[i]]
                  \* a cart row of a deleted item stays, without its item
                  /\ cartItems' = [c \in DOMAIN cartItems |->
                                     IF cartItems[c].item = args.id
                                     THEN [cartItems[c] EXCEPT !.item = Null]
                                     ELSE cartItems[c]]
                  /\ last' = Call("deleteItem", uid, args, Ok)
                  /\ UNCHANGED <<users, nextItemId, nextCartId, requests, authVars>>

----------------------------------------------------------------------------
(* Permissions *)

\* updatePermissions with the hasPermission call left out: a fault C2 detects
updatePermissions_noCheck(uid, args) ==
    /\ IF uid = Null
       THEN /\ last' = Call("updatePermissions", uid, args, "You must be logged in!")
            /\ UNCHANGED users
       ELSE IF args.userId \notin DOMAIN users
       THEN /\ last' = Call("updatePermissions", uid, args, "No Node for the model User")
            /\ UNCHANGED users
       ELSE /\ users' = [users EXCEPT ![args.userId].permissions = args.permissions]
            /\ last' = Call("updatePermissions", uid, args, Ok)
    /\ UNCHANGED <<shopVars, authVars>>

updatePermissions(uid, args) ==
    /\ IF uid = Null
       THEN /\ last' = Call("updatePermissions", uid, args, "You must be logged in!")
            /\ UNCHANGED users
       ELSE IF ~hasPermission(users[uid], {"ADMIN", "PERMISSIONUPDATE"})
       THEN /\ last' = Call("updatePermissions", uid, args, "You do not have sufficient permissions")
            /\ UNCHANGED users
       ELSE IF args.userId \notin DOMAIN users
       THEN /\ last' = Call("updatePermissions", uid, args, "No Node for the model User")
            /\ UNCHANGED users
       ELSE /\ users' = [users EXCEPT ![args.userId].permissions = args.permissions]
            /\ last' = Call("updatePermissions", uid, args, Ok)
    /\ UNCHANGED <<shopVars, authVars>>

----------------------------------------------------------------------------
(* Cart resolvers *)

\* steps 3 and 4 of addToCart: the table after the update of the row found, or
\* after the creation of a fresh row; the table itself when the call throws
\* (the row to update is gone, or the item to connect does not exist)
CartAfterWrite(uid, itemId, existingCartItem) ==
    IF existingCartItem # <<>>
    THEN IF existingCartItem[1].id \in DOMAIN cartItems
         THEN [cartItems EXCEPT ![existingCartItem[1].id].quantity =
                                    existingCartItem[1].quantity + 1]
         ELSE cartItems
    ELSE IF itemId \in DOMAIN items
         THEN cartItems @@ (nextCartId :> [user |-> uid, item |-> itemId,
                                           quantity |-> DefaultQuantity])
         ELSE cartItems

\* step 2 of addToCart, `const [existingCartItem] = ...`: the list of the first
\* row the cartItems query returns, empty when it returns none
ExistingCartItem(uid, itemId) ==
    LET c == First(CartItemsOf(uid, itemId))
    IN  IF c = Null THEN <<>> ELSE <<[id |-> c, quantity |-> cartItems[c].quantity]>>

\* the write of addToCart stays within the bounds of the model
WriteInBounds(after) ==
    /\ DOMAIN after \subseteq CartIds
    /\ \A c \in DOMAIN after : after[c].quantity <= MaxQuantity

\* addToCart that ignores the row found and always creates one: a fault C1 detects
addToCart_alwaysCreate(uid, args) ==
    /\ IF uid = Null
       THEN /\ last' = Call("addToCart", uid, args, "You must be signed in!")
            /\ UNCHANGED <<cartItems, nextCartId>>
       ELSE LET after == CartAfterWrite(uid, args.id, <<>>)
            IN  /\ WriteInBounds(after)
                /\ cartItems' = after
                /\ nextCartId' = IF DOMAIN after = DOMAIN cartItems
                                 THEN nextCartId ELSE nextCartId + 1
                /\ last' = Call("addToCart", uid, args,
                                IF after = cartItems THEN "No Node for the model" ELSE Ok)
    /\ UNCHANGED <<users, items, nextItemId, requests, authVars>>

addToCart(uid, args) ==
    /\ IF uid = Null
       THEN /\ last' = Call("addToCart", uid, args, "You must be signed in!")
            /\ UNCHANGED <<cartItems, nextCartId>>
       ELSE LET existingCartItem == ExistingCartItem(uid, args.id)
                after == CartAfterWrite(uid, args.id, existingCartItem)
            IN  /\ WriteInBounds(after)
                /\ cartItems' = after
                /\ nextCartId' = IF DOMAIN after = DOMAIN cartItems
                                 THEN nextCartId ELSE nextCartId + 1
                /\ last' = Call("addToCart", uid, args,
                                IF after = cartItems THEN "No Node for the model" ELSE Ok)
    /\ UNCHANGED <<users, items, nextItemId, requests, authVars>>

removeFromCart(uid, args) ==
    /\ IF args.id \notin DOMAIN cartItems
       THEN /\ last' = Call("removeFromCart", uid, args, "No cart item found!")
            /\ UNCHANGED cartItems
       ELSE IF cartItems[args.id].user # uid
       THEN /\ last' = Call("removeFromCart", uid, args, "It appears you don't own that item...")
            /\ UNCHANGED cartItems
       ELSE /\ cartItems' = [c \in DOMAIN cartItems \ {args.id} |-> cartItems[c]]
            /\ last' = Call("removeFromCart", uid, args, Ok)
    /\ UNCHANGED <<users, items, nextItemId, nextCartId, requests, authVars>>

\* ctx.request.userId: nobody, or a user of the database
RequestUserIds == {Null} \cup DOMAIN users

\* createItem carries title, description and price
ItemArgs ==
    {[title |-> "t1", description |-> "d1", price |-> 10],
     [title |-> "t2", description |-> "d2", price |-> 20]}

\* updateItem carries the id and any of title, description, price
UpdateArgs ==
    [id : ItemIds]
    \cup [id : ItemIds, title : Titles]
    \cup [id : ItemIds, description : Descriptions, price : {20}]

\* items and the permissions that guard them
NextItems ==
    \/ \E uid \in RequestUserIds, args \in ItemArgs : createItem(uid, args)
    \/ \E uid \in RequestUserIds, args \in UpdateArgs : updateItem(uid, args)
    \/ \E uid \in RequestUserIds, args \in [id : ItemIds] : deleteItem(uid, args)
    \/ \E uid \in RequestUserIds, args \in [userId : UserIds, permissions : PermissionSets] :
          updatePermissions(uid, args)

SpecItems == Init /\ [][NextItems]_vars

\* the item a shop owner lists in the cart specifications
ListedItem == CHOOSE args \in ItemArgs : TRUE

\* carts, over items that come and go
NextCart ==
    \/ \E uid \in DOMAIN users : createItem(uid, ListedItem)
    \/ \E uid \in DOMAIN users, args \in [id : ItemIds] : deleteItem(uid, args)
    \/ \E uid \in RequestUserIds, args \in [id : ItemIds] : addToCart(uid, args)
    \/ \E uid \in RequestUserIds, args \in [id : CartIds] : removeFromCart(uid, args)

SpecCart == Init /\ [][NextCart]_vars

----------------------------------------------------------------------------
(* addToCart as it runs: `await ctx.db.query.cartItems(...)` yields, and the
   update or create is sent when the request resumes *)

\* steps 1 and 2 of a new request: the sign-in check and the cartItems query
addToCartQuery(uid, args) ==
    LET r == Cardinality(DOMAIN requests) + 1
    IN  /\ r <= MaxRequests
        /\ IF uid = Null
           THEN /\ last' = Call("addToCart", uid, args, "You must be signed in!")
                /\ UNCHANGED requests
           ELSE /\ requests' = requests @@
                      (r :> [user |-> uid, item |-> args.id, pc |-> "queried",
                             existingCartItem |-> ExistingCartItem(uid, args.id)])
                /\ last' = Call("addToCart:query", uid, args, Ok)
        /\ UNCHANGED <<users, items, nextItemId, cartItems, nextCartId, authVars>>

\* steps 3 and 4 of request r, with the row its query returned
addToCartWrite(r) ==
    LET req == requests[r]
        after == CartAfterWrite(req.user, req.item, req.existingCartItem)
    IN  /\ req.pc = "queried"
        /\ cartItems' = after
        /\ nextCartId' = IF DOMAIN after = DOMAIN cartItems
                         THEN nextCartId ELSE nextCartId + 1
        /\ requests' = [requests EXCEPT ![r].pc = "done"]
        /\ last' = Call("addToCart:write", req.user, [id |-> req.item],
                        IF after = cartItems THEN "No Node for the model" ELSE Ok)
        /\ UNCHANGED <<users, items, nextItemId, authVars>>

NextCartRace ==
    \/ \E uid \in DOMAIN users : createItem(uid, ListedItem)
    \/ \E uid \in RequestUserIds, args \in [id : DOMAIN items] : addToCartQuery(uid, args)
    \/ \E r \in DOMAIN requests : addToCartWrite(r)

SpecCartRace == Init /\ [][NextCartRace]_vars

----------------------------------------------------------------------------
(* Properties of the authentication resolvers *)

\* the user a successful call authenticates, computed from the state before it
AuthenticatedBy(call) ==
    IF call.op = "signin" THEN
        {u \in DOMAIN users : users[u].email = call.args.email
                              /\ bcryptCompare(call.args.password, users[u].password)}
    ELSE IF call.op = "signup" THEN
        IF \E u \in DOMAIN users : users[u].email = toLowerCase(call.args.email)
        THEN {} ELSE {nextUserId}
    ELSE IF call.op = "resetPassword" THEN
        {u \in DOMAIN users : /\ call.args.password = call.args.confirmPassword
                              /\ users[u].resetToken = call.args.resetToken}
    ELSE {}

\* C4: a signup whose lowercased email is that of an existing user fails, leaves
\* every user row and the cookie as they were; a signup that goes through adds
\* one row holding the lowercased email, a hash of the password that is not the
\* plaintext, and the permissions {USER}, whatever the arguments carry.
C4_SignupContract ==
    [][last'.op = "signup" =>
        LET args == last'.args
            email == toLowerCase(args.email)
        IN  IF \E u \in DOMAIN users : users[u].email = email
            THEN /\ last'.error # Ok
                 /\ users' = users
                 /\ cookie' = cookie
            ELSE \E id \in DOMAIN users' \ DOMAIN users :
                 /\ DOMAIN users' = DOMAIN users \cup {id}
                 /\ \A u \in DOMAIN users : users'[u] = users[u]
                 /\ users'[id].email = email
                 /\ users'[id].password # args.password
                 /\ bcryptCompare(args.password, users'[id].password)
                 /\ users'[id].permissions = {"USER"}]_vars

\* C4 witness: after a signup went through, a signup whose email differs from a
\* stored one only by case, and carries a permissions argument, was rejected
C4_Witness ==
    /\ last.op = "signup"
    /\ last.error # Ok
    /\ last.args.email # toLowerCase(last.args.email)
    /\ "permissions" \in DOMAIN last.args
    /\ DOMAIN users # DOMAIN SeedUsers

\* C5: signin sets the token cookie only when a user with the given email exists
\* and the password matches its stored hash, and the token carries that user's
\* id; a failed signin leaves the cookie as it was; signout clears it; the cookie
\* is always empty or the token of the user of the last successful
\* signin/signup/resetPassword.
C5_SessionCookie ==
    [][/\ (last'.op = "signin" =>
             IF AuthenticatedBy(last') # {}
             THEN \E u \in AuthenticatedBy(last') :
                     cookie' = {jwtSign(u)} /\ last'.error = Ok
             ELSE cookie' = cookie /\ last'.error # Ok)
       /\ (last'.op = "signout" => cookie' = {})
       /\ (lastAuth' # lastAuth =>
             last'.error = Ok /\ lastAuth' \in AuthenticatedBy(last'))
       /\ (last'.op \in {"signin", "signup", "resetPassword"} /\ last'.error = Ok =>
             lastAuth' \in AuthenticatedBy(last'))
       /\ (cookie' = {} \/ cookie' = {jwtSign(lastAuth')})]_vars

\* C5 witness: a signin with a wrong password failed while the cookie held the
\* token of another call
C5_Witness ==
    /\ last.op = "signin"
    /\ last.error = "Invalid password!"
    /\ cookie # {}

\* C6: a resetPassword with matching passwords made more than one hour after
\* the requestReset that issued its token is rejected as invalid or expired and
\* changes no user; within the hour, with the token still stored, it succeeds.
C6_TokenExpiresAfterOneHour ==
    [][(/\ last'.op = "resetPassword"
        /\ last'.args.resetToken \in DOMAIN issuedAt
        /\ last'.args.password = last'.args.confirmPassword) =>
        LET t == last'.args.resetToken
        IN  IF now > issuedAt[t] + HourMs
            THEN /\ last'.error = "This token is either invalid or expired"
                 /\ users' = users
            ELSE (\E u \in DOMAIN users : users[u].resetToken = t) =>
                    last'.error = Ok]_vars

\* C7: a password changes only by a resetPassword whose password equals its
\* confirmPassword and whose token is the one stored on that very user; a
\* successful resetPassword leaves that user's resetToken and resetTokenExpiry
\* null and touches no other user; a resetPassword with a token that has
\* already been used fails and changes nothing.
C7_ResetTokenSingleUse ==
    [][/\ \A u \in DOMAIN users :
            users'[u].password # users[u].password =>
                /\ last'.op = "resetPassword"
                /\ last'.args.password = last'.args.confirmPassword
                /\ users[u].resetToken = last'.args.resetToken
       /\ (last'.op = "resetPassword" /\ last'.error = Ok =>
            \E u \in DOMAIN users :
                /\ users[u].resetToken = last'.args.resetToken
                /\ users'[u].password = bcryptHash(last'.args.password)
                /\ users'[u].resetToken = Null
                /\ users'[u].resetTokenExpiry = Null
                /\ \A v \in DOMAIN users \ {u} : users'[v] = users[v])
       /\ (last'.op = "resetPassword" /\ last'.args.resetToken \in usedTokens =>
            /\ last'.error # Ok
            /\ users' = users
            /\ cookie' = cookie)]_vars

\* C7 witness: a second resetPassword with a used token and matching passwords
\* has failed, before the hour was over
C7_Witness ==
    /\ last.op = "resetPassword"
    /\ last.error # Ok
    /\ last.args.password = last.args.confirmPassword
    /\ last.args.resetToken \in usedTokens
    /\ now <= issuedAt[last.args.resetToken] + HourMs

\* C10: right after a successful signup(e, p), signin(e, p) with the same e and p
\* succeeds with a token for the user signup created, and requestReset(e) finds
\* that user.
C10_CredentialsRoundTrip ==
    [][(last.op = "signup" /\ last.error = Ok) =>
        /\ (/\ last'.op = "signin"
            /\ last'.args.email = last.args.email
            /\ last'.args.password = last.args.password) =>
                (last'.error = Ok /\ cookie' = {jwtSign(lastAuth)})
        /\ (last'.op = "requestReset" /\ last'.args.email = last.args.email) =>
                last'.error = Ok]_vars

----------------------------------------------------------------------------
(* Properties of the cart, item and permission resolvers *)

\* the rows of a cart table for one user and one item
RowsIn(cart, uid, itemId) ==
    {c \in DOMAIN cart : cart[c].user = uid /\ cart[c].item = itemId}

\* C1: addToCart of a signed-in user raises the quantity of the user's row for
\* the item by exactly 1 and adds no row when there is such a row, and creates
\* exactly one row for (user, item) when there is none; there is never more than
\* one row per (user, item); without a signed-in user it fails with 'You must be
\* signed in!' and leaves the cart as it was.
C1_AddToCart ==
    [][/\ last'.op = "addToCart" =>
            LET uid == last'.userId
                id == last'.args.id
                rows == RowsIn(cartItems, uid, id)
            IN  IF uid = Null
                THEN last'.error = "You must be signed in!" /\ cartItems' = cartItems
                ELSE IF rows # {}
                THEN \E c \in rows :
                        cartItems' = [cartItems EXCEPT ![c].quantity = @ + 1]
                ELSE IF id \in DOMAIN items
                THEN \E c \in DOMAIN cartItems' \ DOMAIN cartItems :
                        /\ DOMAIN cartItems' = DOMAIN cartItems \cup {c}
                        /\ cartItems'[c].user = uid
                        /\ cartItems'[c].item = id
                        /\ \A d \in DOMAIN cartItems : cartItems'[d] = cartItems[d]
                ELSE cartItems' = cartItems
       /\ \A u \in DOMAIN users, i \in ItemIds :
            Cardinality(RowsIn(cartItems', u, i)) <= 1]_vars

\* C1 witness: an addToCart went through for an item that was in the cart, while
\* the other user has a row for the same item
C1_Witness ==
    /\ last.op = "addToCart"
    /\ last.error = Ok
    /\ \E c \in RowsIn(cartItems, last.userId, last.args.id) :
          cartItems[c].quantity > DefaultQuantity
    /\ \E u \in DOMAIN users \ {last.userId} :
          RowsIn(cartItems, u, last.args.id) # {}

\* the caller of the call may update permissions
MayUpdatePermissions(call) ==
    /\ call.userId # Null
    /\ call.userId \in DOMAIN users
    /\ users[call.userId].permissions \cap {"ADMIN", "PERMISSIONUPDATE"} # {}

\* C2: permissions change only by an updatePermissions whose request carries a
\* logged-in user holding ADMIN or PERMISSIONUPDATE; otherwise the call fails
\* and no user changes; on success the target's permissions are exactly
\* args.permissions and no other user is altered.
C2_UpdatePermissions ==
    [][/\ \A u \in DOMAIN users :
            users'[u].permissions # users[u].permissions =>
                /\ last'.op = "updatePermissions"
                /\ MayUpdatePermissions(last')
                /\ u = last'.args.userId
       /\ last'.op = "updatePermissions" =>
            IF last'.error = Ok
            THEN /\ MayUpdatePermissions(last')
                 /\ users' = [users EXCEPT ![last'.args.userId].permissions =
                                              last'.args.permissions]
            ELSE users' = users
       /\ (last'.op = "updatePermissions" /\ ~MayUpdatePermissions(last')) =>
            last'.error # Ok]_vars

\* C2 witness: after some permissions were changed, a logged-in user without
\* ADMIN or PERMISSIONUPDATE was refused
C2_Witness ==
    /\ last.op = "updatePermissions"
    /\ last.error = "You do not have sufficient permissions"
    /\ users # SeedUsers

\* the caller of the call may delete the item it names
MayDelete(call) ==
    /\ call.args.id \in DOMAIN items
    /\ call.userId # Null
    /\ call.userId \in DOMAIN users
    /\ \/ items[call.args.id].user = call.userId
       \/ users[call.userId].permissions \cap {"ADMIN", "ITEMDELETE"} # {}

\* C3: an item is removed only by a deleteItem of its owner or of a holder of
\* ADMIN or ITEMDELETE; for every other requester (nobody logged in, an id of no
\* item) the call ends in an error and the items are unchanged.
C3_DeleteItem ==
    [][/\ \A i \in DOMAIN items :
            i \notin DOMAIN items' =>
                /\ last'.op = "deleteItem"
                /\ last'.args.id = i
                /\ MayDelete(last')
       /\ last'.op = "deleteItem" =>
            IF last'.error = Ok
            THEN /\ MayDelete(last')
                 /\ items' = [i \in DOMAIN items \ {last'.args.id} |-> items[i]]
            ELSE items' = items
       /\ (last'.op = "deleteItem" /\ ~MayDelete(last')) =>
            last'.error # Ok]_vars

\* C3 witness: a logged-in user who neither owns the item nor holds a permission
\* was refused, and the item is still there
C3_Witness ==
    /\ last.op = "deleteItem"
    /\ last.error = "You don't have permission to do that!"
    /\ last.args.id \in DOMAIN items

\* the requests of the race that are for the user and the item
RequestsFor(uid, itemId) ==
    {r \in DOMAIN requests : requests[r].user = uid /\ requests[r].item = itemId}

\* C8: with interleaved addToCart requests there is still at most one row per
\* (user, item), and once all n requests for a pair have completed the row's
\* quantity is n.
C8_InterleavedAddToCart ==
    \A u \in DOMAIN users, i \in ItemIds :
        /\ Cardinality(RowsIn(cartItems, u, i)) <= 1
        /\ (/\ RequestsFor(u, i) # {}
            /\ \A r \in DOMAIN requests : requests[r].pc = "done") =>
                \E c \in RowsIn(cartItems, u, i) :
                    cartItems[c].quantity = Cardinality(RequestsFor(u, i))

\* C9: an existing item changes only by the request of a logged-in user who owns
\* it or holds ADMIN or ITEMUPDATE; an updateItem that applies changes only the
\* fields supplied besides id, never the id or the owner.
C9_ItemChangeNeedsOwnerOrPermission ==
    [][\A i \in DOMAIN items \cap DOMAIN items' :
            items'[i] # items[i] =>
                /\ last'.userId # Null
                /\ \/ items[i].user = last'.userId
                   \/ users[last'.userId].permissions \cap {"ADMIN", "ITEMUPDATE"} # {}
                /\ last'.op = "updateItem"
                /\ last'.args.id = i
                /\ items'[i].user = items[i].user
                /\ \A k \in DOMAIN items[i] \ DOMAIN last'.args :
                      items'[i][k] = items[i][k]]_vars

====
